---- MODULE Spec2Model ----
(***************************************************************************)
(* bip9checker (main.go): a polling loop that keeps a histogram            *)
(* (blockIndex: block version -> count) over the trailing window of        *)
(* `interval` blocks ending at currentHeight.                              *)
(*                                                                         *)
(* The node is the environment: it holds a chain (height -> version) and   *)
(* a tip height, answers getinfo with the tip and getblockhash/getblock    *)
(* with a block's version, and any RPC may fail.  The program is main():   *)
(* one action per statement group, its position held in pc.                *)
(***************************************************************************)
EXTENDS Integers, Sequences, FiniteSets, TLC

\* ---------------------------------------------------------------- bounds
\* Window size used by the model; the program sets interval to
\* BLOCK_BIP9_INTERVAL = 2016 * 4 (main.go:21, :188).
W == 3
\* Highest block height the node's chain reaches.
MaxHeight == 5
\* How many times the node's reported height may go down (SpecReorg only).
MaxReorgs == 1
\* Largest height handed to GetNextBlockRetarget in SpecRetarget.
MaxBlockNum == 4100

\* Version fields the blocks carry (0 is never a block's version; it is the
\* zero value GetBlockCollated returns beside an error).
Versions == {1, 2}

\* ------------------------------------------------------ program constants
BLOCK_RETARGET_INTERVAL == 2016

VARIABLES
    pc,            \* position of main()
    nodeHeight,    \* node: height of the chain tip ("blocks" of getinfo)
    chain,         \* node: version of the block at each height
    reorgs,        \* node: number of times the tip went down
    currentHeight, \* main: currentHeight
    newHeight,     \* main: newHeight of the current poll
    diff,          \* main: diff of the current poll
    i,             \* main: loop variable of the add loop / remove loop
    blockStart,    \* main: loop variable of the initial build
    blockIndex,    \* main: the histogram, a Go map[int]int
    nextRetarget,  \* log output of line 190 (<<>> before it is printed)
    summary,       \* log output: the last PrintBlockSummary (<<>> before)
    fetched,       \* history: GetBlockCollated calls of the initial build, then of the current Advance
    initErrs,      \* history: heights whose fetch failed in the initial build
    preIndex,      \* history: blockIndex when the current Advance began
    net,           \* history: per height, increments minus decrements applied for its block
    singleSteps    \* history: every Advance so far had diff = 1

vars == <<pc, nodeHeight, chain, reorgs, currentHeight, newHeight, diff, i,
          blockStart, blockIndex, nextRetarget, summary, fetched, initErrs,
          preIndex, net, singleSteps>>

nodeVars == <<nodeHeight, chain, reorgs>>
mainVars == <<pc, currentHeight, newHeight, diff, i, blockStart, blockIndex,
              nextRetarget, summary, fetched, initErrs, preIndex, net,
              singleSteps>>

interval == W

\* ------------------------------------------------------------ Go map[int]int
\* The empty map.
EmptyMap == [k \in {} |-> 0]

\* m[k] of a Go map: the zero value when the key is absent.
Get(m, k) == IF k \in DOMAIN m THEN m[k] ELSE 0

\* m[k] += d: creates the key when absent.
AddTo(m, k, d) ==
    [x \in DOMAIN m \cup {k} |-> IF x = k THEN Get(m, k) + d ELSE m[x]]

\* totalBlocks of PrintBlockSummary: the sum of the counts over the keys
\* that are present.
RECURSIVE SumOver(_, _)
SumOver(m, keys) ==
    IF keys = {} THEN 0
    ELSE LET k == CHOOSE x \in keys : TRUE
         IN  m[k] + SumOver(m, keys \ {k})

\* ------------------------------------------------------------------- node
\* GetBlockHeight: the tip height, or an error.
GetBlockHeight ==
    {[ok |-> TRUE, blocks |-> nodeHeight], [ok |-> FALSE, blocks |-> 0]}

\* GetBlockCollated(block): the version of the block on the chain at that
\* height, or (0, err): always possible (transport), and the only outcome
\* for a height that is not on the chain.
GetBlockCollated(block) ==
    {[ok |-> FALSE, version |-> 0]}
    \cup (IF block \in 0..nodeHeight
          THEN {[ok |-> TRUE, version |-> chain[block]]}
          ELSE {})

\* The node mines a block.
NodeMine ==
    /\ nodeHeight < MaxHeight
    /\ nodeHeight' = nodeHeight + 1
    /\ UNCHANGED <<chain, reorgs>>
    /\ UNCHANGED mainVars

\* The node's tip goes down (blocks disconnected); SpecReorg only.
NodeReorg ==
    /\ reorgs < MaxReorgs
    /\ nodeHeight > 0
    /\ nodeHeight' = nodeHeight - 1
    /\ reorgs' = reorgs + 1
    /\ UNCHANGED chain
    /\ UNCHANGED mainVars

\* ----------------------------------------------------------- pure functions
\* The loop of GetNextBlockRetarget: for i := 0; i < blockNum; i += 2016.
RECURSIVE RetargetLoop(_, _, _)
RetargetLoop(j, iterations, blockNum) ==
    IF j < blockNum
    THEN RetargetLoop(j + BLOCK_RETARGET_INTERVAL, iterations + 1, blockNum)
    ELSE iterations

\* Mutant: the boundary test of line 175 left out.
RetargetBumpNoBoundary(iterations, blockNum) == iterations

\* The bump of GetNextBlockRetarget when blockNum is on a boundary.
RetargetBump(iterations, blockNum) ==
    IF iterations * BLOCK_RETARGET_INTERVAL = blockNum
    THEN iterations + 1
    ELSE iterations

GetNextBlockRetarget(blockNum) ==
    RetargetBump(RetargetLoop(0, 0, blockNum), blockNum) * BLOCK_RETARGET_INTERVAL

\* PrintBlockSummary: what it logs (the percentages, floats, are left out).
PrintBlockSummary(index, blockHeight, ival) ==
    [height |-> blockHeight,
     rangeLo |-> blockHeight - ival + 1,
     rangeHi |-> blockHeight,
     counts |-> index,
     totalBlocks |-> SumOver(index, DOMAIN index)]

\* -------------------------------------------------------------------- main
\* Mutant: the initial build starts one height too low.
BuildFromOneLow(ch, ival) == ch - ival

\* First height of the initial build (line 191).
BuildFrom(ch, ival) == ch - ival + 1

\* Mutant: the add loop also takes currentHeight (>= for >).
AddMoreInclusive(j, ch) == j >= ch

\* Condition of the add loop (line 214).
AddMore(j, ch) == j > ch

\* Mutant: the remove loop starts one height too high.
RemoveFromOneHigh(nh, ival) == nh - ival + 1

\* Bounds of the remove loop (line 224).
RemoveFrom(nh, ival) == nh - ival
\* Mutant: the remove loop runs one iteration too many (<= for <).
RemoveEndInclusive(nh, ival, d) == (nh - ival) + d + 1

RemoveEnd(nh, ival, d) == (nh - ival) + d

\* Mutant: the test of line 210 left out, every poll runs the loops.
HeightChangedAlways(nh, ch) == TRUE

\* Mutant: the test of line 210 turned round, a higher height is ignored.
HeightChangedLower(nh, ch) == nh < ch

\* The test that starts an Advance (line 210).
HeightChanged(nh, ch) == nh # ch

Fetch(op, h, r) == [op |-> op, h |-> h, ok |-> r.ok]

\* The history net after a fetch of height h with outcome r whose version
\* was counted d times (d = 1 or -1): a failed fetch counts no block.
Counted(h, r, d) == IF r.ok THEN [net EXCEPT ![h] = @ + d] ELSE net

\* line 182-185: currentHeight, err := GetBlockHeight()
Start ==
    /\ pc = "start"
    /\ \E r \in GetBlockHeight :
         IF r.ok
         THEN /\ currentHeight' = r.blocks
              /\ pc' = "retarget"
         ELSE /\ pc' = "fatal"
              /\ UNCHANGED currentHeight
    /\ UNCHANGED <<newHeight, diff, i, blockStart, blockIndex, nextRetarget,
                   summary, fetched, initErrs, preIndex>>
    /\ UNCHANGED <<net, singleSteps>>
    /\ UNCHANGED nodeVars

\* line 187-191: the empty map, the retarget log line, blockStart
LogRetarget ==
    /\ pc = "retarget"
    /\ blockIndex' = EmptyMap
    /\ nextRetarget' = <<GetNextBlockRetarget(currentHeight)>>
    /\ blockStart' = BuildFrom(currentHeight, interval)
    /\ pc' = "build"
    /\ UNCHANGED <<currentHeight, newHeight, diff, i, summary, fetched,
                   initErrs, preIndex>>
    /\ UNCHANGED <<net, singleSteps>>
    /\ UNCHANGED nodeVars

\* line 193-200: one iteration of the initial build. An error is logged
\* and the returned version (0) is counted all the same.
BuildStep ==
    /\ pc = "build"
    /\ blockStart <= currentHeight
    /\ \E r \in GetBlockCollated(blockStart) :
         /\ blockIndex' = AddTo(blockIndex, r.version, 1)
         /\ fetched' = Append(fetched, Fetch("build", blockStart, r))
         /\ UNCHANGED singleSteps
         /\ net' = Counted(blockStart, r, 1)
         /\ initErrs' = IF r.ok THEN initErrs ELSE initErrs \cup {blockStart}
    /\ blockStart' = blockStart + 1
    /\ UNCHANGED <<pc, currentHeight, newHeight, diff, i, nextRetarget,
                   summary, preIndex>>
    /\ UNCHANGED nodeVars

\* line 193 (loop exit), 202: PrintBlockSummary after the initial build
BuildDone ==
    /\ pc = "build"
    /\ ~(blockStart <= currentHeight)
    /\ summary' = <<PrintBlockSummary(blockIndex, currentHeight, interval)>>
    /\ pc' = "poll"
    /\ UNCHANGED <<currentHeight, newHeight, diff, i, blockStart, blockIndex,
                   nextRetarget, fetched, initErrs, preIndex>>
    /\ UNCHANGED <<net, singleSteps>>
    /\ UNCHANGED nodeVars

\* line 205-214: the poll; a changed height starts an Advance
Poll ==
    /\ pc = "poll"
    /\ \E r \in GetBlockHeight :
         IF ~r.ok
         THEN /\ pc' = "fatal"
              /\ UNCHANGED <<newHeight, diff, i, fetched, preIndex, singleSteps>>
         ELSE /\ newHeight' = r.blocks
              /\ IF HeightChanged(r.blocks, currentHeight)
                 THEN /\ diff' = r.blocks - currentHeight
                      /\ i' = r.blocks
                      /\ fetched' = <<>>
                      /\ preIndex' = blockIndex
                      /\ singleSteps' = (singleSteps /\ r.blocks - currentHeight = 1)
                      /\ pc' = "add"
                 ELSE /\ pc' = "sleep"
                      /\ UNCHANGED <<diff, i, fetched, preIndex, singleSteps>>
    /\ UNCHANGED <<currentHeight, blockStart, blockIndex, nextRetarget,
                   summary, initErrs>>
    /\ UNCHANGED net
    /\ UNCHANGED nodeVars

\* line 235: time.Sleep(time.Second)
Sleep ==
    /\ pc = "sleep"
    /\ pc' = "poll"
    /\ UNCHANGED <<currentHeight, newHeight, diff, i, blockStart, blockIndex,
                   nextRetarget, summary, fetched, initErrs, preIndex>>
    /\ UNCHANGED <<net, singleSteps>>
    /\ UNCHANGED nodeVars

\* Mutant: the add loop handles an error as the initial build does
\* (log.Println for log.Fatal): the returned 0 is counted and the loop goes on.
AddStepLogsError ==
    /\ pc = "add"
    /\ AddMore(i, currentHeight)
    /\ \E r \in GetBlockCollated(i) :
         /\ fetched' = Append(fetched, Fetch("add", i, r))
         /\ UNCHANGED singleSteps
         /\ net' = Counted(i, r, 1)
         /\ blockIndex' = AddTo(blockIndex, r.version, 1)
         /\ i' = i - 1
         /\ pc' = pc
    /\ UNCHANGED <<currentHeight, newHeight, diff, blockStart, nextRetarget,
                   summary, initErrs, preIndex>>
    /\ UNCHANGED nodeVars

\* line 214-222: one iteration of the add loop
AddStep ==
    /\ pc = "add"
    /\ AddMore(i, currentHeight)
    /\ \E r \in GetBlockCollated(i) :
         /\ fetched' = Append(fetched, Fetch("add", i, r))
         /\ UNCHANGED singleSteps
         /\ net' = Counted(i, r, 1)
         /\ IF r.ok
            THEN /\ blockIndex' = AddTo(blockIndex, r.version, 1)
                 /\ i' = i - 1
                 /\ pc' = pc
            ELSE /\ pc' = "fatal"
                 /\ UNCHANGED <<blockIndex, i>>
    /\ UNCHANGED <<currentHeight, newHeight, diff, blockStart, nextRetarget,
                   summary, initErrs, preIndex>>
    /\ UNCHANGED nodeVars

\* line 214 (loop exit), 224 (i := newHeight - interval)
AddDone ==
    /\ pc = "add"
    /\ ~AddMore(i, currentHeight)
    /\ i' = RemoveFrom(newHeight, interval)
    /\ pc' = "remove"
    /\ UNCHANGED <<currentHeight, newHeight, diff, blockStart, blockIndex,
                   nextRetarget, summary, fetched, initErrs, preIndex>>
    /\ UNCHANGED <<net, singleSteps>>
    /\ UNCHANGED nodeVars

\* line 224-231: one iteration of the remove loop
RemoveStep ==
    /\ pc = "remove"
    /\ i < RemoveEnd(newHeight, interval, diff)
    /\ \E r \in GetBlockCollated(i) :
         /\ fetched' = Append(fetched, Fetch("remove", i, r))
         /\ UNCHANGED singleSteps
         /\ net' = Counted(i, r, -1)
         /\ IF r.ok
            THEN /\ blockIndex' = AddTo(blockIndex, r.version, -1)
                 /\ i' = i + 1
                 /\ pc' = pc
            ELSE /\ pc' = "fatal"
                 /\ UNCHANGED <<blockIndex, i>>
    /\ UNCHANGED <<currentHeight, newHeight, diff, blockStart, nextRetarget,
                   summary, initErrs, preIndex>>
    /\ UNCHANGED nodeVars

\* Mutant: the summary is printed before currentHeight is assigned
\* (lines 232 and 233 swapped).
RemoveDoneReportsFirst ==
    /\ pc = "remove"
    /\ ~(i < RemoveEnd(newHeight, interval, diff))
    /\ summary' = <<PrintBlockSummary(blockIndex, currentHeight, interval)>>
    /\ currentHeight' = newHeight
    /\ pc' = "poll"
    /\ UNCHANGED <<newHeight, diff, i, blockStart, blockIndex, nextRetarget,
                   fetched, initErrs, preIndex>>
    /\ UNCHANGED <<net, singleSteps>>
    /\ UNCHANGED nodeVars

\* line 224 (loop exit), 232: currentHeight = newHeight
RemoveDone ==
    /\ pc = "remove"
    /\ ~(i < RemoveEnd(newHeight, interval, diff))
    /\ currentHeight' = newHeight
    /\ pc' = "report"
    /\ UNCHANGED <<newHeight, diff, i, blockStart, blockIndex, nextRetarget,
                   summary, fetched, initErrs, preIndex>>
    /\ UNCHANGED <<net, singleSteps>>
    /\ UNCHANGED nodeVars

\* Mutant: PrintBlockSummary deletes the keys whose count is 0 from the map
\* it was handed (a Go map is passed by reference).
ReportPrunesIndex ==
    /\ pc = "report"
    /\ summary' = <<PrintBlockSummary(blockIndex, currentHeight, interval)>>
    /\ blockIndex' = [k \in {x \in DOMAIN blockIndex : blockIndex[x] # 0}
                        |-> blockIndex[k]]
    /\ pc' = "poll"
    /\ UNCHANGED <<currentHeight, newHeight, diff, i, blockStart,
                   nextRetarget, fetched, initErrs, preIndex>>
    /\ UNCHANGED <<net, singleSteps>>
    /\ UNCHANGED nodeVars

\* line 233: PrintBlockSummary(blockIndex, currentHeight, interval)
Report ==
    /\ pc = "report"
    /\ summary' = <<PrintBlockSummary(blockIndex, currentHeight, interval)>>
    /\ pc' = "poll"
    /\ UNCHANGED <<currentHeight, newHeight, diff, i, blockStart, blockIndex,
                   nextRetarget, fetched, initErrs, preIndex>>
    /\ UNCHANGED <<net, singleSteps>>
    /\ UNCHANGED nodeVars

\* ---------------------------------------------------------- specifications
\* The state before main() runs: the node has some chain and some tip.
Init ==
    /\ pc = "start"
    /\ chain \in [0..MaxHeight -> Versions]
    /\ nodeHeight \in 0..MaxHeight
    /\ reorgs = 0
    /\ currentHeight = 0
    /\ newHeight = 0
    /\ diff = 0
    /\ i = 0
    /\ blockStart = 0
    /\ blockIndex = EmptyMap
    /\ nextRetarget = <<>>
    /\ summary = <<>>
    /\ fetched = <<>>
    /\ initErrs = {}
    /\ preIndex = EmptyMap
    /\ net = [h \in 0..MaxHeight |-> 0]
    /\ singleSteps = TRUE

Next ==
    \/ Start
    \/ LogRetarget
    \/ BuildStep
    \/ BuildDone
    \/ Poll
    \/ Sleep
    \/ AddStep
    \/ AddDone
    \/ RemoveStep
    \/ RemoveDone
    \/ Report
    \/ NodeMine

\* The node's height never goes down (the environment the window needs).
Spec == Init /\ [][Next]_vars

\* The statements of main(): the loop of line 204 has no exit and no wait
\* other than the sleep, so main() goes on until log.Fatal.
MainStep ==
    \/ Start
    \/ LogRetarget
    \/ BuildStep
    \/ BuildDone
    \/ Poll
    \/ Sleep
    \/ AddStep
    \/ AddDone
    \/ RemoveStep
    \/ RemoveDone
    \/ Report

\* Spec with main() always taking its next step; the node mines or not.
SpecLive == Init /\ [][Next]_vars /\ WF_vars(MainStep)

NextReorg ==
    \/ Next
    \/ NodeReorg

\* The node's height may also go down.
SpecReorg == Init /\ [][NextReorg]_vars

\* GetNextBlockRetarget alone, on every height up to MaxBlockNum: main() at
\* line 190 with currentHeight as GetBlockHeight returned it.
InitRetarget ==
    /\ pc = "retarget"
    /\ chain = [h \in 0..MaxHeight |-> 1]
    /\ nodeHeight = MaxHeight
    /\ reorgs = 0
    /\ currentHeight \in 0..MaxBlockNum
    /\ newHeight = 0
    /\ diff = 0
    /\ i = 0
    /\ blockStart = 0
    /\ blockIndex = EmptyMap
    /\ nextRetarget = <<>>
    /\ summary = <<>>
    /\ fetched = <<>>
    /\ initErrs = {}
    /\ preIndex = EmptyMap
    /\ net = [h \in 0..MaxHeight |-> 0]
    /\ singleSteps = TRUE

NextRetarget == LogRetarget

SpecRetarget == InitRetarget /\ [][NextRetarget]_vars

\* ------------------------------------------------------------------ claims
\* Number of heights in lo..hi whose block has version v: what a scan of
\* lo..hi counts for v.
Tally(lo, hi, v) == Cardinality({h \in lo..hi : chain[h] = v})

Keys == Versions \cup {0}

\* The histogram is what a scan of the window ending at h counts.
MatchesScan(h) ==
    \A v \in Keys : Get(blockIndex, v) = Tally(h - interval + 1, h, v)

\* An Advance has run to its end: both loops done, currentHeight assigned.
AdvanceDone ==
    /\ pc \in {"report", "poll", "sleep"}
    /\ fetched # <<>>
    /\ fetched[1].op = "add"

\* The program stopped (log.Fatal) on a failed fetch inside an Advance.
AdvanceFailed ==
    /\ pc = "fatal"
    /\ fetched # <<>>
    /\ fetched[Len(fetched)].op \in {"add", "remove"}
    /\ ~fetched[Len(fetched)].ok

\* Heights fetched by the current operation's loop `op`, in order.
HeightsOf(op) ==
    LET sel == SelectSeq(fetched, LAMBDA f : f.op = op)
    IN  [k \in 1..Len(sel) |-> sel[k].h]

SeqRange(s) == {s[k] : k \in 1..Len(s)}

\* C1: after a run of successful Advance steps (the initial build having
\* fetched every height), the histogram equals the one a scan of
\* [currentHeight - W + 1, currentHeight] builds.
C1_EquivalentToRescan ==
    (AdvanceDone /\ initErrs = {}) => MatchesScan(currentHeight)

\* C2: wherever the histogram is reported or observable between Advances,
\* its counts sum to W.
C2_SumIsW ==
    /\ summary # <<>> => summary[1].totalBlocks = interval
    /\ pc \in {"poll", "sleep", "report"} =>
           SumOver(blockIndex, DOMAIN blockIndex) = interval

\* C2 witness: a multi-block Advance has been reported.
C2_Witness ==
    /\ pc = "poll"
    /\ AdvanceDone
    /\ diff >= 2
    /\ summary[1].height = newHeight
    /\ Len(HeightsOf("remove")) = diff

\* C3: after the initial build (every fetch of it having succeeded) and
\* after every successful Advance no histogram entry is negative.
C3_NonNegative ==
    (pc \in {"poll", "sleep", "report"} /\ initErrs = {}) =>
        \A k \in DOMAIN blockIndex : blockIndex[k] >= 0

\* C4: the heights removed by an Advance are exactly
\* oldWindowStart .. oldWindowStart + delta - 1, with
\* oldWindowStart = (height before the Advance) - W + 1.
C4_RemovalSet ==
    AdvanceDone =>
        LET oldStart == (newHeight - diff) - interval + 1
        IN  /\ SeqRange(HeightsOf("remove")) = oldStart..(oldStart + diff - 1)
            /\ Len(HeightsOf("remove")) = diff

\* blockIndex after the fetches of `log` that succeeded, applied to m.
RECURSIVE Applied(_, _)
Applied(m, log) ==
    IF log = <<>> THEN m
    ELSE LET f == log[Len(log)]
             before == Applied(m, SubSeq(log, 1, Len(log) - 1))
         IN  IF ~f.ok THEN before
             ELSE AddTo(before, chain[f.h], IF f.op = "remove" THEN -1 ELSE 1)

\* C5 as claimed: when a fetch fails during an Advance, currentHeight and the
\* histogram are as before the Advance and the loop can poll again (retry).
C5_FailureAtomic ==
    AdvanceFailed =>
        /\ currentHeight = newHeight - diff
        /\ blockIndex = preIndex
        /\ ENABLED Poll

\* C5 amended: when a fetch fails during an Advance the program stops for
\* good: currentHeight is the height before the Advance, the last report is
\* the one before the Advance, the histogram holds exactly the increments and
\* decrements of the fetches that succeeded before the failing one, and no
\* statement of main() runs afterwards.
C5_FailureStops ==
    /\ [](AdvanceFailed =>
            /\ currentHeight = newHeight - diff
            /\ summary # <<>>
            /\ summary[1].height = currentHeight
            /\ summary[1].counts = preIndex
            /\ \A v \in Keys :
                 Get(blockIndex, v) = Get(Applied(preIndex, fetched), v))
    /\ [][pc = "fatal" => UNCHANGED mainVars]_vars

\* C5 witness: an Advance stopped on a failed fetch after it had already
\* changed the histogram.
C5_Witness ==
    /\ AdvanceFailed
    /\ Len(fetched) >= 2
    /\ blockIndex # preIndex

\* C6: if a fetch of the initial build failed, no histogram is reported.
C6_BuildFailsAsWhole ==
    summary # <<>> => initErrs = {}

\* C7: currentHeight never decreases.
C7_HeightMonotone ==
    [][currentHeight' >= currentHeight]_vars

\* C8: an Advance with delta >= W rebuilds the histogram by one scan of
\* [newHeight - W + 1, newHeight] (no removals), and the result matches a
\* scan at newHeight.
C8_FullRotationRescans ==
    (AdvanceDone /\ diff >= interval /\ initErrs = {}) =>
        /\ MatchesScan(newHeight)
        /\ HeightsOf("remove") = <<>>
        /\ SeqRange(HeightsOf("add")) = (newHeight - interval + 1)..newHeight
        /\ Len(HeightsOf("add")) = interval

\* C9: a poll that returns currentHeight goes to the sleep, fetches no block
\* version, prints nothing and leaves the histogram and currentHeight as
\* they are; so does the sleep, so any number of such polls in a row do.
C9_NoOpPoll ==
    /\ [][(pc = "poll" /\ pc' \notin {"poll", "fatal"}
              /\ newHeight' = currentHeight)
            => (pc' = "sleep"
                /\ UNCHANGED <<blockIndex, currentHeight, fetched, summary>>)]_vars
    /\ [][pc = "sleep"
            => (pc' \in {"sleep", "poll"}
                /\ UNCHANGED <<blockIndex, currentHeight, fetched, summary>>)]_vars

\* C9 witness: the loop sleeps after a poll that found no new block, an
\* Advance having run before.
C9_Witness ==
    /\ pc = "sleep"
    /\ newHeight = currentHeight
    /\ AdvanceDone

\* C10: GetNextBlockRetarget(h) = (floor(h / 2016) + 1) * 2016, the smallest
\* multiple of 2016 strictly greater than h; 2016 -> 4032, 2015 -> 2016,
\* 0 -> 2016.
C10_RetargetBoundary ==
    nextRetarget # <<>> =>
        LET h == currentHeight
            r == nextRetarget[1]
        IN  /\ r = ((h \div BLOCK_RETARGET_INTERVAL) + 1) * BLOCK_RETARGET_INTERVAL
            /\ r % BLOCK_RETARGET_INTERVAL = 0
            /\ r > h
            /\ r - BLOCK_RETARGET_INTERVAL <= h
            /\ (h = 2016 => r = 4032)
            /\ (h = 2015 => r = 2016)
            /\ (h = 0 => r = 2016)

\* C10 witness: the retarget height was printed for a height on a boundary.
C10_Witness ==
    /\ nextRetarget = <<4032>>
    /\ currentHeight = 2016

\* Every fetch of the current operation succeeded.
AllOk == \A k \in 1..Len(fetched) : fetched[k].ok

\* The initial build is over and no Advance has started yet.
BuildOver ==
    /\ pc \in {"poll", "sleep"}
    /\ fetched # <<>>
    /\ fetched[1].op = "build"

\* C11: every height decremented by an Advance was incremented before and
\* not yet decremented: no height's decrements outnumber its increments
\* (the initial build having fetched every height).
C11_RemovalsWereCounted ==
    initErrs = {} => \A h \in 0..MaxHeight : net[h] >= 0

\* C12: a successful Advance fetches and increments exactly the delta
\* heights (currentHeight, newHeight], each once, and ends with
\* currentHeight = newHeight.
C12_AdditionSet ==
    AdvanceDone =>
        /\ diff >= 1
        /\ SeqRange(HeightsOf("add")) = (newHeight - diff + 1)..newHeight
        /\ Len(HeightsOf("add")) = diff
        /\ AllOk
        /\ \A v \in Keys :
             Get(blockIndex, v) = Get(Applied(preIndex, fetched), v)
        /\ currentHeight = newHeight

\* C12 witness: an Advance over several new blocks has just ended.
C12_Witness ==
    /\ pc = "report"
    /\ AdvanceDone
    /\ diff >= 2
    /\ Len(HeightsOf("add")) = diff

\* C13: when every fetch succeeds, the initial build fetches the heights
\* currentHeight - W + 1 .. currentHeight, each once and no other, and the
\* histogram counts, per version, the heights of that range with it.
C13_BuildResult ==
    (BuildOver /\ initErrs = {}) =>
        /\ HeightsOf("build") = [k \in 1..interval |-> currentHeight - interval + k]
        /\ Len(fetched) = interval
        /\ MatchesScan(currentHeight)

\* C13 witness: the initial build succeeded on a window with both versions.
C13_Witness ==
    /\ BuildOver
    /\ initErrs = {}
    /\ DOMAIN blockIndex = Versions

\* C14: printing the summary leaves the histogram and currentHeight as they
\* are and prints them as they are; the histogram changes only in the
\* initial build and in the two loops of an Advance.
C14_ReportReadOnly ==
    /\ [][((pc = "report" \/ pc = "build") /\ pc' = "poll")
            => (/\ UNCHANGED <<blockIndex, currentHeight>>
                /\ summary' = <<PrintBlockSummary(blockIndex, currentHeight, interval)>>)]_vars
    /\ [][blockIndex' # blockIndex => pc \in {"build", "add", "remove"}]_vars

\* C14 witness: the summary of an Advance has been printed, with a key
\* whose count is 0 still in the map.
C14_Witness ==
    /\ pc = "poll"
    /\ AdvanceDone
    /\ summary = <<PrintBlockSummary(blockIndex, currentHeight, interval)>>
    /\ \E k \in DOMAIN blockIndex : blockIndex[k] = 0

\* C15: while every Advance has delta 1, each Advance adds exactly newHeight
\* and removes exactly the old window's lowest height, and (the initial
\* build having fetched every height) the histogram is the tally of
\* [newHeight - W + 1, newHeight] after each of them.
C15_SingleBlockAdvances ==
    (AdvanceDone /\ singleSteps) =>
        /\ fetched = << [op |-> "add", h |-> newHeight, ok |-> TRUE],
                        [op |-> "remove", h |-> (newHeight - 1) - interval + 1,
                         ok |-> TRUE] >>
        /\ initErrs = {} => MatchesScan(newHeight)

\* C15 witness: at least the second single-block Advance in a row has
\* ended (the initial build ended at height blockStart - 1).
C15_Witness ==
    /\ AdvanceDone
    /\ singleSteps
    /\ initErrs = {}
    /\ currentHeight >= (blockStart - 1) + 2

InitPhase == {"start", "retarget", "build"}

\* C16: the scan of W blocks happens once, before the first poll; the
\* initial phase is never entered again, and every Advance performs exactly
\* delta increments and delta decrements, 2 * delta fetches.
C16_FullBuildOnce ==
    /\ [](/\ pc \in InitPhase =>
               /\ \A k \in 1..Len(fetched) : fetched[k].op = "build"
               /\ newHeight = 0
          /\ BuildOver => Len(fetched) = interval
          /\ pc \in {"add", "remove", "report"} =>
               \A k \in 1..Len(fetched) : fetched[k].op # "build"
          /\ AdvanceDone =>
               /\ Len(HeightsOf("add")) = diff
               /\ Len(HeightsOf("remove")) = diff
               /\ Len(fetched) = 2 * diff)
    /\ [][pc \notin InitPhase => pc' \notin InitPhase]_vars

\* C16 witness: an Advance of delta >= W has ended with its 2 * delta
\* fetches.
C16_Witness ==
    /\ AdvanceDone
    /\ diff >= interval
    /\ Len(fetched) = 2 * diff

\* C17: every height handed to GetBlockCollated lies in [0, H], H the height
\* the node reported last (currentHeight in the initial build, newHeight in
\* an Advance).
C17_FetchesOnChain ==
    \A k \in 1..Len(fetched) :
        /\ fetched[k].h >= 0
        /\ fetched[k].h <= (IF fetched[k].op = "build" THEN currentHeight
                            ELSE newHeight)

\* C18: inside an Advance every increment comes before every decrement,
\* currentHeight is assigned after the last of them, and the summary is
\* printed after that: no summary shows a histogram from inside an Advance.
C18_StepOrdering ==
    /\ \A j, k \in 1..Len(fetched) :
         j < k => ~(fetched[j].op = "remove" /\ fetched[k].op = "add")
    /\ pc = "remove" => Len(HeightsOf("add")) = diff
    /\ pc \in {"add", "remove"} =>
         /\ currentHeight = newHeight - diff
         /\ summary = <<PrintBlockSummary(preIndex, currentHeight, interval)>>
    /\ pc = "report" =>
         /\ currentHeight = newHeight
         /\ Len(HeightsOf("add")) = diff
         /\ Len(HeightsOf("remove")) = diff
    /\ (pc \in {"poll", "sleep"} /\ summary # <<>>) =>
         summary = <<PrintBlockSummary(blockIndex, currentHeight, interval)>>

\* C18 witness: an Advance is between two decrements, all its increments
\* applied, the last summary still the one from before it.
C18_Witness ==
    /\ pc = "remove"
    /\ diff >= 2
    /\ Len(HeightsOf("remove")) = 1
    /\ blockIndex # preIndex

\* main() polls or sleeps with currentHeight at the node's height.
CaughtUp ==
    /\ currentHeight = nodeHeight
    /\ pc \in {"poll", "sleep"}

\* C19: if no query ever fails, then (the node's height settling, as it
\* does in every behaviour) currentHeight is eventually the node's height
\* for good and main() only polls and sleeps from then on: no fetch of a
\* block version, no change of the histogram.
C19_CatchUp ==
    [](pc # "fatal" /\ initErrs = {}) => <>[]CaughtUp

\* C19 witness: caught up with the chain tip after a multi-block Advance.
C19_Witness ==
    /\ CaughtUp
    /\ AdvanceDone
    /\ initErrs = {}
    /\ diff >= 2
    /\ nodeHeight = MaxHeight

====
